---------------------------- MODULE Spec2Model ----------------------------
(***************************************************************************)
(* Model of the transcription service: backend/main.py (request validator  *)
(* and the POST /transcribe endpoint) and backend/transcriber.py (the two  *)
(* workers and their temporary files and directories).                     *)
(*                                                                         *)
(* Requests run concurrently: the validator and the endpoint run on the    *)
(* event loop, each worker call runs on a thread of the pool, so the steps *)
(* of different requests interleave freely.                                *)
(*                                                                         *)
(* Text is modelled as a sequence of tokens; Python's `in` on strings is   *)
(* modelled as contiguous-subsequence search over the tokens.              *)
(***************************************************************************)
EXTENDS Naturals, Sequences, FiniteSets

\* Number of requests of the general specification (each is handled once).
NumRequests == 1

\* Number of simultaneous valid requests of the concurrency specification.
NumConcurrent == 2

-----------------------------------------------------------------------------
(* Values of the two form fields *)

NoneVal == [t |-> "none", v |-> ""]
Str(s) == [t |-> "str", v |-> s]
Upload(d) == [t |-> "upload", v |-> d]

\* What a temporary file or an extracted audio file holds.
NoData == [kind |-> "none", id |-> 0, url |-> ""]
EmptyData == [kind |-> "empty", id |-> 0, url |-> ""]
PartialData == [kind |-> "partial", id |-> 0, url |-> ""]
\* The recording request i uploads.
Recording(i) == [kind |-> "wav", id |-> i, url |-> ""]
\* What yt-dlp extracts from a URL.
ExtractedAudio(url) == [kind |-> "mp3", id |-> 0, url |-> url]

TheUrl == "https://youtu.be/x"
UrlValues == {NoneVal, Str(""), Str(TheUrl)}
\* An omitted field, the empty string or the placeholder "string" that client
\* tooling submits, or the uploaded recording.
FileValues(i) == {NoneVal, Str(""), Str("string"), Upload(Recording(i))}

\* Python truthiness: None and "" are falsy, an UploadFile object is truthy.
Bool(x) == CASE x.t = "none" -> FALSE
             [] x.t = "str" -> x.v # ""
             [] x.t = "upload" -> TRUE

\* isinstance(x, str)
IsStr(x) == x.t = "str"

-----------------------------------------------------------------------------
(* Text *)

\* Python's `pat in msg`.
Contains(msg, pat) ==
    \E k \in 0..(Len(msg) - Len(pat)) : SubSeq(msg, k + 1, k + Len(pat)) = pat

HTTP403 == <<"HTTP", "Error", "403">>
UnableToDownload == <<"unable", "to", "download">>

\* Messages the extraction tool and the speech model can raise with.
Messages == { <<"ERROR:">> \o HTTP403 \o <<"Forbidden">>,
              <<"ERROR:">> \o UnableToDownload \o <<"webpage">>,
              <<"HTTP", "Error", "404:", "Not", "Found">> }

NoSpace == <<"No", "space", "left", "on", "device">>
ClosedFile == <<"I/O", "operation", "on", "closed", "file">>
NoSuchFile == <<"No", "such", "file", "or", "directory">>

NoExc == [raised |-> FALSE, msg |-> <<>>]
Raise(m) == [raised |-> TRUE, msg |-> m]

\* result["text"] of the speech model, and the absence of one.
NoText == [heard |-> NoData]

NoResponse == [status |-> 0, detail |-> <<>>, transcript |-> NoText]
HTTPException(code, detail) == [status |-> code, detail |-> detail, transcript |-> NoText]
Ok200(transcript) == [status |-> 200, detail |-> <<>>, transcript |-> transcript]


-----------------------------------------------------------------------------
(* main.py: the validator and the error mapping *)

DetailNeither == <<"You", "must", "provide", "either", "a", "'youtube_url'",
                   "or", "an", "'audio_file'.">>
DetailBoth == <<"Please", "provide", "either", "a", "'youtube_url'", "or", "an",
                "'audio_file',", "not", "both.">>
Detail400 == <<"Failed", "to", "download", "audio", "from", "the", "provided",
               "YouTube", "URL.", "The", "video", "may", "be", "private", "or",
               "protected.">>
Prefix500 == <<"An", "unexpected", "error", "occurred", "during", "transcription:">>

NoInputs == [youtube_url |-> NoneVal, audio_file |-> NoneVal]

\* Variant: the validator without the isinstance(audio_file, str) normalisation.
validate_without_str_check(youtube_url, audio_file) ==
    LET has_url == Bool(youtube_url)
        has_file == Bool(audio_file)
    IN  IF ~has_url /\ ~has_file
          THEN [raised |-> TRUE, exc |-> HTTPException(422, DetailNeither),
                value |-> NoInputs]
        ELSE IF has_url /\ has_file
          THEN [raised |-> TRUE, exc |-> HTTPException(422, DetailBoth),
                value |-> NoInputs]
        ELSE [raised |-> FALSE, exc |-> NoResponse,
              value |-> [youtube_url |-> youtube_url, audio_file |-> audio_file]]

validate_and_process_inputs(youtube_url, audio_file) ==
    LET file == IF IsStr(audio_file) THEN NoneVal ELSE audio_file
        has_url == Bool(youtube_url)
        has_file == Bool(file)
    IN  IF ~has_url /\ ~has_file
          THEN [raised |-> TRUE, exc |-> HTTPException(422, DetailNeither),
                value |-> NoInputs]
        ELSE IF has_url /\ has_file
          THEN [raised |-> TRUE, exc |-> HTTPException(422, DetailBoth),
                value |-> NoInputs]
        ELSE [raised |-> FALSE, exc |-> NoResponse,
              value |-> [youtube_url |-> youtube_url, audio_file |-> file]]

\* Variant: the endpoint branching on `youtube_url is not None`.
worker_for_is_not_none(inputs) ==
    IF inputs.youtube_url.t # "none" THEN "process_youtube_url" ELSE "process_audio_file"

\* The branch of transcribe_endpoint: which worker runs for these inputs.
worker_for(inputs) ==
    IF Bool(inputs.youtube_url) THEN "process_youtube_url" ELSE "process_audio_file"

\* Variant: the except clause matching only "unable to download".
error_response_unable_only(error_message) ==
    IF Contains(error_message, UnableToDownload)
      THEN HTTPException(400, Detail400)
      ELSE HTTPException(500, Prefix500 \o error_message)

\* The except clause of transcribe_endpoint.
error_response(error_message) ==
    IF Contains(error_message, HTTP403) \/ Contains(error_message, UnableToDownload)
      THEN HTTPException(400, Detail400)
      ELSE HTTPException(500, Prefix500 \o error_message)

-----------------------------------------------------------------------------
(* transcriber.py: the collaborators *)

FailedToDownload == <<"Failed", "to", "download", "audio", "from", "the", "URL.">>

\* model.transcribe(path): the result for an audio content.
model_transcribe(data) == [text |-> [heard |-> data]]

\* transcribe_audio(file_path): the outcomes of one call, given whether the
\* path exists and what it holds.
transcribe_audio(present, data) ==
    IF ~present
      THEN {[raised |-> TRUE, msg |-> NoSuchFile, text |-> NoText]}
      ELSE {[raised |-> FALSE, msg |-> <<>>, text |-> model_transcribe(data).text]}
           \cup {[raised |-> TRUE, msg |-> m, text |-> NoText] : m \in Messages}

-----------------------------------------------------------------------------
(* State *)

VARIABLES
    pc,         \* where each request is in its handling
    form,       \* the two form fields as submitted
    inputs,     \* the dict the validator returned
    temp,       \* the worker's local temp_dir / temp_file: the name of the
                \* request's temporary directory or file, 0 outside the worker
    exc,        \* the exception propagating out of the worker, if any
    transcript, \* the worker's local `transcript`
    response,   \* the response sent for the request
    disk,       \* the temporary files and directories that exist
    calls       \* per request: the workers invoked, the temporary assets created,
                \* the calls of the extraction tool and of inference, the
                \* responses sent

vars == <<pc, form, inputs, temp, exc, transcript, response, disk, calls>>

NoCalls == [workers |-> {}, created |-> 0, extract |-> 0, infer |-> 0, respond |-> 0]

\* The service with the requests R still to arrive and an empty temp directory.
InitFor(R) ==
    /\ pc = [i \in R |-> "idle"]
    /\ form = [i \in R |-> NoInputs]
    /\ inputs = [i \in R |-> NoInputs]
    /\ temp = [i \in R |-> 0]
    /\ exc = [i \in R |-> NoExc]
    /\ transcript = [i \in R |-> NoText]
    /\ response = [i \in R |-> NoResponse]
    /\ disk = [files |-> {}, dirs |-> {}]
    /\ calls = [i \in R |-> NoCalls]

Init == InitFor(1..NumRequests)
InitConc == InitFor(1..NumConcurrent)

Requests == DOMAIN pc

\* Random names tempfile can draw; one per request is always enough.
TempNames == Requests

(* The file system under the temporary directory *)

FileExists(d, n) == \E f \in d.files : f.name = n
FileAt(d, n) == CHOOSE f \in d.files : f.name = n
DirExists(d, n) == \E x \in d.dirs : x.name = n
DirAt(d, n) == CHOOSE x \in d.dirs : x.name = n

\* Variant: a temporary file name drawn without exclusive creation.
mkstemp_names_not_exclusive(d) == TempNames

\* The names mkstemp / mkdtemp can return: a random name that does not exist
\* (the file or directory is created exclusively).
mkstemp_names(d) == {n \in TempNames : ~FileExists(d, n)}
mkdtemp_names(d) == {n \in TempNames : ~DirExists(d, n)}

CreateFile(d, n, i) ==
    [d EXCEPT !.files = {f \in @ : f.name # n} \cup {[name |-> n, by |-> i, data |-> EmptyData]}]
WriteFile(d, n, bytes) ==
    [d EXCEPT !.files = {IF f.name = n THEN [f EXCEPT !.data = bytes] ELSE f : f \in @}]
\* os.unlink(path)
unlink(d, n) == [d EXCEPT !.files = {f \in @ : f.name # n}]
CreateDir(d, n, i) ==
    [d EXCEPT !.dirs = {x \in @ : x.name # n} \cup {[name |-> n, by |-> i, entries |-> {}]}]
WriteInDir(d, n, entry) ==
    [d EXCEPT !.dirs = {IF x.name = n THEN [x EXCEPT !.entries = @ \cup {entry}] ELSE x : x \in @}]
\* TemporaryDirectory.__exit__: the directory and everything in it goes.
rmtree(d, n) == [d EXCEPT !.dirs = {x \in @ : x.name # n}]

\* os.path.exists(os.path.join(temp_dir, 'audio.mp3'))
AudioPathExists(d, n) ==
    DirExists(d, n) /\ \E e \in DirAt(d, n).entries : e.name = "audio.mp3"
AudioAt(d, n) == CHOOSE e \in DirAt(d, n).entries : e.name = "audio.mp3"

-----------------------------------------------------------------------------
(* main.py *)

\* A request arrives with its two form fields.
Submit(i) ==
    /\ pc[i] = "idle"
    /\ \E u \in UrlValues, f \in FileValues(i) :
          form' = [form EXCEPT ![i] = [youtube_url |-> u, audio_file |-> f]]
    /\ pc' = [pc EXCEPT ![i] = "validate"]
    /\ UNCHANGED <<inputs, temp, exc, transcript, response, disk, calls>>

\* A valid request arrives: one field populated, the other omitted.
SubmitValid(i) ==
    /\ pc[i] = "idle"
    /\ \E f \in {[youtube_url |-> Str(TheUrl), audio_file |-> NoneVal],
                  [youtube_url |-> NoneVal, audio_file |-> Upload(Recording(i))]} :
          form' = [form EXCEPT ![i] = f]
    /\ pc' = [pc EXCEPT ![i] = "validate"]
    /\ UNCHANGED <<inputs, temp, exc, transcript, response, disk, calls>>

\* Variant: the validator reports the 422 but the endpoint body still runs.
ValidateNoRaise(i) ==
    /\ pc[i] = "validate"
    /\ LET v == validate_and_process_inputs(form[i].youtube_url, form[i].audio_file)
       IN  /\ response' = [response EXCEPT ![i] = v.exc]
           /\ inputs' = [inputs EXCEPT ![i] = v.value]
    /\ pc' = [pc EXCEPT ![i] = "endpoint"]
    /\ UNCHANGED <<form, temp, exc, transcript, disk, calls>>

\* The dependency runs before the endpoint body; its HTTPException is the response.
Validate(i) ==
    /\ pc[i] = "validate"
    /\ LET v == validate_and_process_inputs(form[i].youtube_url, form[i].audio_file)
       IN  IF v.raised
             THEN /\ response' = [response EXCEPT ![i] = v.exc]
                  /\ calls' = [calls EXCEPT ![i].respond = @ + 1]
                  /\ pc' = [pc EXCEPT ![i] = "done"]
                  /\ UNCHANGED inputs
             ELSE /\ inputs' = [inputs EXCEPT ![i] = v.value]
                  /\ pc' = [pc EXCEPT ![i] = "endpoint"]
                  /\ UNCHANGED <<response, calls>>
    /\ UNCHANGED <<form, temp, exc, transcript, disk>>

\* transcribe_endpoint hands the call to the thread pool.
Dispatch(i) ==
    /\ pc[i] = "endpoint"
    /\ calls' = [calls EXCEPT ![i].workers = @ \cup {worker_for(inputs[i])}]
    /\ pc' = [pc EXCEPT ![i] =
                 IF worker_for(inputs[i]) = "process_youtube_url"
                   THEN "u_mkdtemp" ELSE "f_mkstemp"]
    /\ UNCHANGED <<form, inputs, temp, exc, transcript, response, disk>>

\* The worker returned or raised: 200 with the transcript, or the mapped error.
Respond(i) ==
    /\ pc[i] = "respond"
    /\ response' = [response EXCEPT ![i] =
                       IF exc[i].raised THEN error_response(exc[i].msg)
                                        ELSE Ok200(transcript[i])]
    /\ calls' = [calls EXCEPT ![i].respond = @ + 1]
    /\ pc' = [pc EXCEPT ![i] = "done"]
    /\ UNCHANGED <<form, inputs, temp, exc, transcript, disk>>

-----------------------------------------------------------------------------
(* transcriber.py: process_youtube_url *)

\* with tempfile.TemporaryDirectory() as temp_dir
MkDtemp(i) ==
    /\ pc[i] = "u_mkdtemp"
    /\ \/ \E n \in mkdtemp_names(disk) :
             /\ disk' = CreateDir(disk, n, i)
             /\ temp' = [temp EXCEPT ![i] = n]
             /\ calls' = [calls EXCEPT ![i].created = @ + 1]
             /\ pc' = [pc EXCEPT ![i] = "u_download"]
             /\ UNCHANGED exc
       \/ /\ exc' = [exc EXCEPT ![i] = Raise(NoSpace)]
          /\ pc' = [pc EXCEPT ![i] = "respond"]
          /\ UNCHANGED <<disk, temp, calls>>
    /\ UNCHANGED <<form, inputs, transcript, response>>

\* Variant: a failed download is tried once more.
DownloadRetry(i) ==
    /\ pc[i] = "u_download"
    /\ calls' = [calls EXCEPT ![i].extract = @ + 1]
    /\ \/ /\ disk' = WriteInDir(disk, temp[i],
                        [name |-> "audio.mp3",
                         data |-> ExtractedAudio(inputs[i].youtube_url.v)])
          /\ pc' = [pc EXCEPT ![i] = "u_exists"]
          /\ exc' = [exc EXCEPT ![i] = NoExc]
       \/ \E m \in Messages :
             /\ exc' = [exc EXCEPT ![i] = Raise(m)]
             /\ pc' = [pc EXCEPT ![i] =
                          IF calls[i].extract = 0 THEN "u_download" ELSE "u_exit"]
             /\ UNCHANGED disk
    /\ UNCHANGED <<form, inputs, temp, transcript, response>>

\* ydl.download([url]): writes audio.mp3, or returns having written nothing,
\* or raises (possibly leaving a partial download behind).
Download(i) ==
    /\ pc[i] = "u_download"
    /\ calls' = [calls EXCEPT ![i].extract = @ + 1]
    /\ IF ~DirExists(disk, temp[i])
         THEN /\ exc' = [exc EXCEPT ![i] = Raise(NoSuchFile)]
              /\ pc' = [pc EXCEPT ![i] = "u_exit"]
              /\ UNCHANGED disk
         ELSE \/ /\ disk' = WriteInDir(disk, temp[i],
                               [name |-> "audio.mp3",
                                data |-> ExtractedAudio(inputs[i].youtube_url.v)])
                 /\ pc' = [pc EXCEPT ![i] = "u_exists"]
                 /\ UNCHANGED exc
              \/ /\ pc' = [pc EXCEPT ![i] = "u_exists"]
                 /\ UNCHANGED <<disk, exc>>
              \/ \E m \in Messages :
                    /\ exc' = [exc EXCEPT ![i] = Raise(m)]
                    /\ pc' = [pc EXCEPT ![i] = "u_exit"]
                    /\ \/ UNCHANGED disk
                       \/ disk' = WriteInDir(disk, temp[i],
                                     [name |-> "audio.webm.part", data |-> PartialData])
    /\ UNCHANGED <<form, inputs, temp, transcript, response>>

\* if not os.path.exists(audio_path): raise FileNotFoundError(...)
CheckExists(i) ==
    /\ pc[i] = "u_exists"
    /\ IF AudioPathExists(disk, temp[i])
         THEN /\ pc' = [pc EXCEPT ![i] = "u_transcribe"]
              /\ UNCHANGED exc
         ELSE /\ exc' = [exc EXCEPT ![i] = Raise(FailedToDownload)]
              /\ pc' = [pc EXCEPT ![i] = "u_exit"]
    /\ UNCHANGED <<form, inputs, temp, transcript, response, disk, calls>>

\* transcript = transcribe_audio(audio_path)
TranscribeUrl(i) ==
    /\ pc[i] = "u_transcribe"
    /\ calls' = [calls EXCEPT ![i].infer = @ + 1]
    /\ \E r \in transcribe_audio(AudioPathExists(disk, temp[i]),
                                 IF AudioPathExists(disk, temp[i])
                                   THEN AudioAt(disk, temp[i]).data ELSE NoData) :
          /\ exc' = [exc EXCEPT ![i] = [raised |-> r.raised, msg |-> r.msg]]
          /\ transcript' = [transcript EXCEPT ![i] = r.text]
    /\ pc' = [pc EXCEPT ![i] = "u_exit"]
    /\ UNCHANGED <<form, inputs, temp, response, disk>>

\* Variant: the directory is removed after inference, not by a with block.
ExitDirOnReturnOnly(i) ==
    /\ pc[i] = "u_exit"
    /\ disk' = IF exc[i].raised THEN disk ELSE rmtree(disk, temp[i])
    /\ temp' = [temp EXCEPT ![i] = 0]
    /\ pc' = [pc EXCEPT ![i] = "respond"]
    /\ UNCHANGED <<form, inputs, exc, transcript, response, calls>>

\* Leaving the with block, by return or by exception: the directory is removed.
ExitDir(i) ==
    /\ pc[i] = "u_exit"
    /\ disk' = rmtree(disk, temp[i])
    /\ temp' = [temp EXCEPT ![i] = 0]
    /\ pc' = [pc EXCEPT ![i] = "respond"]
    /\ UNCHANGED <<form, inputs, exc, transcript, response, calls>>

-----------------------------------------------------------------------------
(* transcriber.py: process_audio_file *)

\* with tempfile.NamedTemporaryFile(delete=False, suffix=".tmp") as temp_file
MkStemp(i) ==
    /\ pc[i] = "f_mkstemp"
    /\ \/ \E n \in mkstemp_names(disk) :
             /\ disk' = CreateFile(disk, n, i)
             /\ temp' = [temp EXCEPT ![i] = n]
             /\ calls' = [calls EXCEPT ![i].created = @ + 1]
             /\ pc' = [pc EXCEPT ![i] = "f_write"]
             /\ UNCHANGED exc
       \/ /\ exc' = [exc EXCEPT ![i] = Raise(NoSpace)]
          /\ pc' = [pc EXCEPT ![i] = "respond"]
          /\ UNCHANGED <<disk, temp, calls>>
    /\ UNCHANGED <<form, inputs, transcript, response>>

\* temp_file.write(file.file.read()), then the with block closes the file.
\* The file was opened with delete=False: closing it does not remove it, and an
\* exception here leaves the function before the try/finally is entered.
WriteUpload(i) ==
    /\ pc[i] = "f_write"
    /\ \/ /\ disk' = WriteFile(disk, temp[i], inputs[i].audio_file.v)
          /\ pc' = [pc EXCEPT ![i] = "f_transcribe"]
          /\ UNCHANGED <<exc, temp>>
       \/ /\ exc' = [exc EXCEPT ![i] = Raise(ClosedFile)]
          /\ temp' = [temp EXCEPT ![i] = 0]
          /\ pc' = [pc EXCEPT ![i] = "respond"]
          /\ UNCHANGED disk
       \/ /\ disk' = WriteFile(disk, temp[i], PartialData)
          /\ exc' = [exc EXCEPT ![i] = Raise(NoSpace)]
          /\ temp' = [temp EXCEPT ![i] = 0]
          /\ pc' = [pc EXCEPT ![i] = "respond"]
    /\ UNCHANGED <<form, inputs, transcript, response, calls>>

\* try: transcript = transcribe_audio(temp_file_path)
TranscribeFile(i) ==
    /\ pc[i] = "f_transcribe"
    /\ calls' = [calls EXCEPT ![i].infer = @ + 1]
    /\ \E r \in transcribe_audio(FileExists(disk, temp[i]),
                                 IF FileExists(disk, temp[i])
                                   THEN FileAt(disk, temp[i]).data ELSE NoData) :
          /\ exc' = [exc EXCEPT ![i] = [raised |-> r.raised, msg |-> r.msg]]
          /\ transcript' = [transcript EXCEPT ![i] = r.text]
    /\ pc' = [pc EXCEPT ![i] = "f_unlink"]
    /\ UNCHANGED <<form, inputs, temp, response, disk>>

\* finally: os.unlink(temp_file_path); then return or re-raise.
Unlink(i) ==
    /\ pc[i] = "f_unlink"
    /\ IF FileExists(disk, temp[i])
         THEN /\ disk' = unlink(disk, temp[i])
              /\ UNCHANGED exc
         ELSE /\ exc' = [exc EXCEPT ![i] = Raise(NoSuchFile)]
              /\ UNCHANGED disk
    /\ temp' = [temp EXCEPT ![i] = 0]
    /\ pc' = [pc EXCEPT ![i] = "respond"]
    /\ UNCHANGED <<form, inputs, transcript, response, calls>>

-----------------------------------------------------------------------------

Next ==
    \/ \E i \in Requests : Submit(i)
    \/ \E i \in Requests : Validate(i)
    \/ \E i \in Requests : Dispatch(i)
    \/ \E i \in Requests : MkDtemp(i)
    \/ \E i \in Requests : Download(i)
    \/ \E i \in Requests : CheckExists(i)
    \/ \E i \in Requests : TranscribeUrl(i)
    \/ \E i \in Requests : ExitDir(i)
    \/ \E i \in Requests : MkStemp(i)
    \/ \E i \in Requests : WriteUpload(i)
    \/ \E i \in Requests : TranscribeFile(i)
    \/ \E i \in Requests : Unlink(i)
    \/ \E i \in Requests : Respond(i)

Spec == Init /\ [][Next]_vars

\* Only valid requests arrive, NumConcurrent of them.
NextConc ==
    \/ \E i \in Requests : SubmitValid(i)
    \/ \E i \in Requests : Validate(i)
    \/ \E i \in Requests : Dispatch(i)
    \/ \E i \in Requests : MkDtemp(i)
    \/ \E i \in Requests : Download(i)
    \/ \E i \in Requests : CheckExists(i)
    \/ \E i \in Requests : TranscribeUrl(i)
    \/ \E i \in Requests : ExitDir(i)
    \/ \E i \in Requests : MkStemp(i)
    \/ \E i \in Requests : WriteUpload(i)
    \/ \E i \in Requests : TranscribeFile(i)
    \/ \E i \in Requests : Unlink(i)
    \/ \E i \in Requests : Respond(i)

SpecConc == InitConc /\ [][NextConc]_vars

-----------------------------------------------------------------------------
(* The terms of the properties *)

\* youtube_url is set: a non-empty string.  audio_file is set: an uploaded file.
UrlSet(f) == f.youtube_url.t = "str" /\ f.youtube_url.v # ""
FileSet(f) == f.audio_file.t = "upload"

Validated(i) == pc[i] \notin {"idle", "validate"}
UrlBacked(i) == Validated(i) /\ UrlSet(form[i]) /\ ~FileSet(form[i])
FileBacked(i) == Validated(i) /\ FileSet(form[i]) /\ ~UrlSet(form[i])

\* The worker has returned or raised; the request has ended.
WorkerLeft(i) == pc[i] \in {"respond", "done"}
Ended(i) == pc[i] = "done"

FilesOf(i) == {f \in disk.files : f.by = i}
DirsOf(i) == {x \in disk.dirs : x.by = i}

PrivateOrProtected == <<"private", "or", "protected.">>

-----------------------------------------------------------------------------
(* Properties *)

\* C1: for a file-backed request, once process_audio_file has been left (by
\* return or by any exception, including one raised while reading the upload
\* or writing it to the temporary file), no temporary file created by the
\* request remains on disk.
C1_TempFileDeletedOnEveryExit ==
    \A i \in Requests : FileBacked(i) /\ WorkerLeft(i) => FilesOf(i) = {}

\* C2: a URL-backed request whose extraction returned without raising but left
\* no audio.mp3 gets status 400, never 200.
C2_NoOutputFileIs400 ==
    \A i \in Requests :
        UrlBacked(i) /\ Ended(i) /\ calls[i].extract = 1
          /\ exc[i] = Raise(FailedToDownload)
        => response[i].status = 400

\* C3: only URL-path exceptions can become 400: every exception of a
\* file-backed request, whatever its message, and every URL-path exception
\* whose message contains neither "HTTP Error 403" nor "unable to download",
\* yields 500 with a detail containing the original message.
C3_Only_Url_Exceptions_Are_400 ==
    \A i \in Requests :
        Ended(i) /\ exc[i].raised
          /\ \/ FileBacked(i)
             \/ /\ UrlBacked(i)
                /\ ~Contains(exc[i].msg, HTTP403)
                /\ ~Contains(exc[i].msg, UnableToDownload)
        => /\ response[i].status = 500
           /\ Contains(response[i].detail, exc[i].msg)

\* C4: a request with neither input set, or with both set, gets 422; an
\* audio_file submitted as a string counts as absent.
C4_NeitherOrBothIs422 ==
    \A i \in Requests :
        Validated(i) /\ (UrlSet(form[i]) <=> FileSet(form[i]))
        => Ended(i) /\ response[i].status = 422

C4_Witness ==
    \E i \in Requests :
        /\ Ended(i) /\ response[i].status = 422
        /\ form[i].audio_file = Str("string") /\ ~UrlSet(form[i])

\* C5: a request with exactly one input set passes validation and is handed to
\* the worker of the populated source, and to that worker only.
C5_ExactlyOneRunsMatchingWorker ==
    \A i \in Requests :
        Validated(i) /\ (UrlSet(form[i]) <=> ~FileSet(form[i]))
        => /\ response[i].status # 422
           /\ pc[i] = "endpoint" => calls[i].workers = {}
           /\ pc[i] # "endpoint" =>
                calls[i].workers = {IF UrlSet(form[i]) THEN "process_youtube_url"
                                                       ELSE "process_audio_file"}

C5_Witness ==
    \E i \in Requests :
        /\ form[i].youtube_url = Str("") /\ FileSet(form[i])
        /\ calls[i].workers = {"process_audio_file"} /\ calls[i].infer = 1

\* C6: for a URL-backed request, once process_youtube_url has been left (the
\* extraction tool raised, audio.mp3 was absent, inference raised, or success),
\* no temporary directory created by the request remains.
C6_TempDirRemovedOnEveryExit ==
    \A i \in Requests : UrlBacked(i) /\ WorkerLeft(i) => DirsOf(i) = {}

C6_Witness ==
    \E i \in Requests :
        /\ UrlBacked(i) /\ Ended(i) /\ calls[i].created = 1
        /\ calls[i].infer = 1 /\ exc[i].raised

\* The audio a valid request submits, as it reaches the speech model.
OwnAudio(i) ==
    IF UrlSet(form[i]) THEN ExtractedAudio(form[i].youtube_url.v) ELSE Recording(i)

HoldsFile(i) == pc[i] \in {"f_write", "f_transcribe", "f_unlink"}
HoldsDir(i) == pc[i] \in {"u_download", "u_exists", "u_transcribe", "u_exit"}

\* C7: with several valid requests in flight, in any interleaving: each one's
\* temporary file or directory is its own (no other request has created,
\* overwritten or deleted it), it still exists until the request's own
\* cleanup step -- so through its own inference call -- it holds the
\* request's own audio when inference reads it, and a 200 response carries
\* the transcript of the request's own audio.
C7_RequestsDoNotShareTempAssets ==
    /\ \A i \in Requests :
          /\ HoldsFile(i) =>
                /\ FileExists(disk, temp[i])
                /\ FileAt(disk, temp[i]).by = i
                /\ pc[i] \in {"f_transcribe", "f_unlink"} =>
                      FileAt(disk, temp[i]).data = OwnAudio(i)
          /\ HoldsDir(i) =>
                /\ DirExists(disk, temp[i])
                /\ DirAt(disk, temp[i]).by = i
                /\ pc[i] = "u_transcribe" =>
                      /\ AudioPathExists(disk, temp[i])
                      /\ AudioAt(disk, temp[i]).data = OwnAudio(i)
          /\ response[i].status = 200 =>
                response[i].transcript = model_transcribe(OwnAudio(i)).text
    /\ \A i, j \in Requests :
          i # j =>
            /\ HoldsFile(i) /\ HoldsFile(j) => temp[i] # temp[j]
            /\ HoldsDir(i) /\ HoldsDir(j) => temp[i] # temp[j]

C7_Witness ==
    \E i, j \in Requests :
        /\ i # j
        /\ pc[i] = "f_transcribe" /\ pc[j] = "f_transcribe"

\* C8: a URL-backed request whose extraction raised with a message containing
\* "HTTP Error 403" gets 400 with a detail saying the video may be private or
\* protected, and the detail does not contain the original message.
C8_Http403Is400 ==
    \A i \in Requests :
        UrlBacked(i) /\ Ended(i) /\ exc[i].raised /\ calls[i].extract = 1
          /\ calls[i].infer = 0 /\ Contains(exc[i].msg, HTTP403)
        => /\ response[i].status = 400
           /\ Contains(response[i].detail, PrivateOrProtected)
           /\ ~Contains(response[i].detail, exc[i].msg)

C8_Witness ==
    \E i \in Requests :
        /\ UrlBacked(i) /\ Ended(i) /\ exc[i].raised /\ calls[i].extract = 1
        /\ calls[i].infer = 0 /\ Contains(exc[i].msg, HTTP403)
        /\ response[i].status = 400

\* C9: a request answered 422 has acquired nothing: it never created a
\* temporary file or directory, and neither the extraction tool nor
\* inference was invoked for it.
C9_RejectedAcquiresNothing ==
    \A i \in Requests :
        response[i].status = 422
        => /\ Ended(i)
           /\ calls[i].created = 0 /\ FilesOf(i) = {} /\ DirsOf(i) = {}
           /\ calls[i].workers = {} /\ calls[i].extract = 0 /\ calls[i].infer = 0

C9_Witness ==
    \E i \in Requests :
        /\ Ended(i) /\ response[i].status = 422
        /\ UrlSet(form[i]) /\ FileSet(form[i])

\* A step of the pipeline has failed for request i.
Failed(i) == exc[i].raised \/ response[i].status = 422

\* What holds of every request in every state, for C10.
C10_State ==
    \A i \in Requests :
        /\ calls[i].extract <= 1 /\ calls[i].infer <= 1 /\ calls[i].respond <= 1
        /\ Failed(i) => pc[i] \in {"u_exit", "f_unlink", "respond", "done"}
        /\ Ended(i) => calls[i].respond = 1
        /\ Ended(i) /\ Failed(i) => response[i].status \in {422, 400, 500}

\* What every step preserves once a request has failed, for C10.
C10_Step ==
    \A i \in Requests :
        Failed(i) =>
            /\ Failed(i)'
            /\ calls'[i].extract = calls[i].extract
            /\ calls'[i].infer = calls[i].infer
            /\ calls'[i].workers = calls[i].workers
            /\ calls'[i].created = calls[i].created

\* C10: nothing is retried and a failure is terminal: per request the
\* extraction tool and inference are each invoked at most once, a failed
\* request is left with cleanup and its response only, it ends with exactly
\* one response, an error one (422, 400 or 500), and after a failure no
\* extraction, inference or acquisition happens for it and its failure stands.
C10_NothingRetried == []C10_State /\ [][C10_Step]_vars

C10_Witness ==
    \E i \in Requests :
        /\ Ended(i) /\ exc[i].raised /\ calls[i].extract = 1 /\ calls[i].infer = 0
        /\ response[i].status = 500

=============================================================================
